---------------------------- MODULE Spec2Model ----------------------------
(***************************************************************************)
(* Batch translation protocol of translators/GoogleTranslator/index.ts:    *)
(* GoogleTranslator.translateBatch (token-authorized, markup-wrapped       *)
(* segments) and GoogleTranslatorTokenFree.translateBatch / translate      *)
(* (token-free, parity reconciliation).                                    *)
(*                                                                         *)
(* A JavaScript string is a sequence of tokens; a token is an opening tag, *)
(* a closing tag or one character of text.  A reply of the transport is a  *)
(* tree of nodes: arrays, strings, numbers, null, or a non-array object.   *)
(***************************************************************************)
EXTENDS Integers, Sequences, FiniteSets, TLC

(***************************************************************************)
(* Bounds of the model.                                                    *)
(***************************************************************************)
MaxN == 2
MaxLeavesA == 3
MaxLeavesB == 5

(***************************************************************************)
(* Strings as token sequences.                                             *)
(***************************************************************************)
Open(n) == [t |-> "open", name |-> n, i |-> -1]
OpenI(n, k) == [t |-> "open", name |-> n, i |-> k]
Close(n) == [t |-> "close", name |-> n, i |-> -1]
Ch(c) == [t |-> "char", name |-> c, i |-> -1]

RECURSIVE Join(_)
Join(list) ==
    IF list = <<>> THEN <<>> ELSE Head(list) \o Join(Tail(list))

RECURSIVE JoinWith(_, _)
JoinWith(list, sep) ==
    IF list = <<>> THEN <<>>
    ELSE IF Len(list) = 1 THEN Head(list)
    ELSE Head(list) \o sep \o JoinWith(Tail(list), sep)

(***************************************************************************)
(* encodeForBatch: segment i becomes <pre><a i="i">text</a></pre>.         *)
(* JavaScript indices start at 0, TLA+ sequences at 1.                     *)
(***************************************************************************)
encodeForBatch(textList) ==
    [k \in 1..Len(textList) |->
        <<Open("pre"), OpenI("a", k - 1)>> \o textList[k]
            \o <<Close("a"), Close("pre")>>]

(***************************************************************************)
(* parseXMLResponse.  The text is parsed into an element tree and the      *)
(* XPath //pre/*[not(self::i)]//text() selects the text nodes that lie     *)
(* below an element child, other than <i>, of a <pre> element.  stack is   *)
(* the list of open elements, outermost first; a text node is a maximal    *)
(* run of characters.  Text that is not a well-nested tree does not parse. *)
(***************************************************************************)
XPathSelected(stack) ==
    \E k \in 1..(Len(stack) - 1) : stack[k] = "pre" /\ stack[k + 1] # "i"

RECURSIVE SelectTextNodes(_, _, _, _, _)
SelectTextNodes(text, k, stack, nodes, inText) ==
    IF k > Len(text)
    THEN [ok |-> stack = <<>>, nodes |-> nodes]
    ELSE LET tok == text[k] IN
         CASE tok.t = "open" ->
                SelectTextNodes(text, k + 1, Append(stack, tok.name), nodes, FALSE)
           [] tok.t = "close" ->
                IF stack # <<>> /\ stack[Len(stack)] = tok.name
                THEN SelectTextNodes(text, k + 1, SubSeq(stack, 1, Len(stack) - 1),
                                     nodes, FALSE)
                ELSE [ok |-> FALSE, nodes |-> <<>>]
           [] OTHER ->
                IF ~XPathSelected(stack)
                THEN SelectTextNodes(text, k + 1, stack, nodes, FALSE)
                ELSE IF inText
                THEN SelectTextNodes(text, k + 1, stack,
                        [nodes EXCEPT ![Len(nodes)] = Append(@, tok)], TRUE)
                ELSE SelectTextNodes(text, k + 1, stack, Append(nodes, <<tok>>), TRUE)

NullText == [isNull |-> TRUE, value |-> <<>>]

parseXMLResponse(text) ==
    LET sel == SelectTextNodes(text, 1, <<>>, <<>>, FALSE) IN
    IF ~sel.ok THEN NullText
    ELSE IF Len(sel.nodes) = 0 THEN NullText
    ELSE [isNull |-> FALSE, value |-> JoinWith(sel.nodes, <<Ch(" ")>>)]


(***************************************************************************)
(* Reply trees (RawReply) and the leaf traversal visitArrayItems.          *)
(***************************************************************************)
Arr(items) == [kind |-> "array", str |-> <<>>, items |-> items]
Str(s) == [kind |-> "string", str |-> s, items |-> <<>>]
Num == [kind |-> "number", str |-> <<>>, items |-> <<>>]
Nul == [kind |-> "null", str |-> <<>>, items |-> <<>>]
Obj == [kind |-> "object", str |-> <<>>, items |-> <<>>]
NoReply == [kind |-> "none", str |-> <<>>, items |-> <<>>]

\* variant: the Array.isArray test is missing
isArray_Any(node) == TRUE

isArray(node) == node.kind = "array"

\* Depth-first, left-to-right list of the primitive leaves below an array.
RECURSIVE visitArrayItems(_)
visitArrayItems(node) ==
    IF node.kind # "array" THEN <<node>>
    ELSE IF node.items = <<>> THEN <<>>
    ELSE visitArrayItems(Head(node.items))
            \o visitArrayItems(Arr(Tail(node.items)))

(***************************************************************************)
(* Errors and settled promises.                                            *)
(***************************************************************************)
Error(msg) == [message |-> msg, context |-> <<>>]
UnexpectedResponse == Error("Unexpected response")
LengthMismatch == Error("Mismatching a lengths of original and translated arrays")
NoError == Error("")

Pending == [state |-> "pending", value |-> <<>>, error |-> NoError]
Resolved(v) == [state |-> "resolved", value |-> v, error |-> NoError]
Rejected(e) == [state |-> "rejected", value |-> <<>>, error |-> e]

(***************************************************************************)
(* GoogleTranslator.translateBatch: the handler of the reply.              *)
(***************************************************************************)
\* variant: result.push(parsedText), without the raw fallback
singleModeText_NoFallback(parsedText, obj) == parsedText.value

\* parsedText || obj : null and the empty string are falsy
singleModeText(parsedText, obj) ==
    IF parsedText.isNull \/ parsedText.value = <<>> THEN obj ELSE parsedText.value

\* variant: the raw fallback is applied for every batch size
RECURSIVE collectA_KeepRaw(_, _, _, _)
collectA_KeepRaw(leaves, k, isSingleResponseMode, result) ==
    IF k > Len(leaves) THEN result
    ELSE LET obj == leaves[k] IN
         IF isSingleResponseMode /\ Len(result) = 1
         THEN collectA_KeepRaw(leaves, k + 1, isSingleResponseMode, result)
         ELSE IF obj.kind # "string"
         THEN collectA_KeepRaw(leaves, k + 1, isSingleResponseMode, result)
         ELSE collectA_KeepRaw(leaves, k + 1, isSingleResponseMode,
                  Append(result, singleModeText(parseXMLResponse(obj.str), obj.str)))

\* variant: single-response mode does not stop after its first result
RECURSIVE collectA_NoStop(_, _, _, _)
collectA_NoStop(leaves, k, isSingleResponseMode, result) ==
    IF k > Len(leaves) THEN result
    ELSE LET obj == leaves[k] IN
         IF obj.kind # "string"
         THEN collectA_NoStop(leaves, k + 1, isSingleResponseMode, result)
         ELSE LET parsedText == parseXMLResponse(obj.str) IN
              IF isSingleResponseMode
              THEN collectA_NoStop(leaves, k + 1, isSingleResponseMode,
                            Append(result, singleModeText(parsedText, obj.str)))
              ELSE IF ~parsedText.isNull
              THEN collectA_NoStop(leaves, k + 1, isSingleResponseMode,
                            Append(result, parsedText.value))
              ELSE collectA_NoStop(leaves, k + 1, isSingleResponseMode, result)

\* the callback given to visitArrayItems, applied to the leaves in order
RECURSIVE collectA(_, _, _, _)
collectA(leaves, k, isSingleResponseMode, result) ==
    IF k > Len(leaves) THEN result
    ELSE LET obj == leaves[k] IN
         IF isSingleResponseMode /\ Len(result) = 1
         THEN collectA(leaves, k + 1, isSingleResponseMode, result)
         ELSE IF obj.kind # "string"
         THEN collectA(leaves, k + 1, isSingleResponseMode, result)
         ELSE LET parsedText == parseXMLResponse(obj.str) IN
              IF isSingleResponseMode
              THEN collectA(leaves, k + 1, isSingleResponseMode,
                            Append(result, singleModeText(parsedText, obj.str)))
              ELSE IF ~parsedText.isNull
              THEN collectA(leaves, k + 1, isSingleResponseMode,
                            Append(result, parsedText.value))
              ELSE collectA(leaves, k + 1, isSingleResponseMode, result)

\* variant: the length check is missing
lengthsDiffer_Never(result, textList) == FALSE

\* variant: only a list that is too short is refused
lengthsDiffer_OnlyShorter(result, textList) == Len(result) < Len(textList)

lengthsDiffer(result, textList) == Len(result) # Len(textList)

WarnResponse(resp) == <<"Got response", resp>>
WarnResult(result) == <<"Translation result", result>>

handleReplyA(textList, rawResp) ==
    IF ~isArray(rawResp)
    THEN [settled |-> Rejected(UnexpectedResponse), result |-> <<>>,
          console |-> <<WarnResponse(rawResp)>>]
    ELSE LET result == collectA(visitArrayItems(rawResp), 1, Len(textList) = 1, <<>>) IN
         IF lengthsDiffer(result, textList)
         THEN [settled |-> Rejected(LengthMismatch), result |-> result,
               console |-> <<WarnResponse(rawResp)>>]
         ELSE [settled |-> Resolved(result), result |-> result, console |-> <<>>]

(***************************************************************************)
(* GoogleTranslatorTokenFree.translateBatch: the handler of the reply.     *)
(***************************************************************************)
RECURSIVE collectStrings(_, _)
collectStrings(leaves, k) ==
    IF k > Len(leaves) THEN <<>>
    ELSE IF leaves[k].kind = "string"
    THEN <<leaves[k].str>> \o collectStrings(leaves, k + 1)
    ELSE collectStrings(leaves, k + 1)

\* variant: the odd positions are taken for the translations
isTranslation_Odd(isOneToOneMappingMode, idx) ==
    isOneToOneMappingMode \/ idx % 2 = 1

\* variant: no parity filter
isTranslation_Always(isOneToOneMappingMode, idx) == TRUE

\* idx is the JavaScript index, starting at 0
isTranslation(isOneToOneMappingMode, idx) ==
    isOneToOneMappingMode \/ idx % 2 = 0

\* variant: single-response mode without the break
RECURSIVE reconcileB_NoBreak(_, _, _, _, _)
reconcileB_NoBreak(intermediateTextsArray, idx, isSingleResponseMode, isOneToOneMappingMode, result) ==
    IF idx >= Len(intermediateTextsArray) THEN result
    ELSE LET txt == intermediateTextsArray[idx + 1] IN
         reconcileB_NoBreak(intermediateTextsArray, idx + 1, isSingleResponseMode,
                         isOneToOneMappingMode,
                         IF isSingleResponseMode \/ isTranslation(isOneToOneMappingMode, idx)
                         THEN Append(result, txt) ELSE result)

\* the for..in loop over intermediateTextsArray, from index idx on
RECURSIVE reconcileB(_, _, _, _, _)
reconcileB(intermediateTextsArray, idx, isSingleResponseMode, isOneToOneMappingMode, result) ==
    IF idx >= Len(intermediateTextsArray) THEN result
    ELSE LET txt == intermediateTextsArray[idx + 1] IN
         IF isSingleResponseMode THEN Append(result, txt)
         ELSE reconcileB(intermediateTextsArray, idx + 1, isSingleResponseMode,
                         isOneToOneMappingMode,
                         IF isTranslation(isOneToOneMappingMode, idx)
                         THEN Append(result, txt) ELSE result)

handleReplyB(textList, rawResp) ==
    IF ~isArray(rawResp)
    THEN [settled |-> Rejected(UnexpectedResponse), result |-> <<>>,
          console |-> <<WarnResponse(rawResp)>>]
    ELSE LET intermediateTextsArray == collectStrings(visitArrayItems(rawResp), 1)
             result == reconcileB(intermediateTextsArray, 0, Len(textList) = 1,
                                  Len(intermediateTextsArray) = Len(textList), <<>>)
         IN IF lengthsDiffer(result, textList)
            THEN [settled |-> Rejected(LengthMismatch), result |-> result,
                  console |-> <<WarnResult(result), WarnResponse(rawResp)>>]
            ELSE [settled |-> Resolved(result), result |-> result, console |-> <<>>]

(***************************************************************************)
(* Inputs: the segment lists a caller passes and the replies the transport *)
(* can give.                                                               *)
(***************************************************************************)
SeqsUpTo(S, n) == UNION {[1..m -> S] : m \in 0..n}

SegmentTexts == {<<Ch("h"), Ch("i")>>}
TextLists == SeqsUpTo(SegmentTexts, MaxN)

Markup0 == <<Open("pre"), OpenI("a", 0), Ch("x"), Close("a"), Close("pre")>>
Markup1 == <<Open("pre"), OpenI("a", 1), Ch("y"), Close("a"), Close("pre")>>
MarkupAnnotated ==
    <<Open("pre"), Open("i"), Ch("h"), Close("i"), Open("b"), Ch("x"), Close("b"),
      Open("b"), Ch("y"), Close("b"), Close("pre")>>
MarkupOnlyAnnotation == <<Open("pre"), Open("i"), Ch("h"), Close("i"), Close("pre")>>
MarkupBroken == <<Open("pre"), OpenI("a", 0), Ch("x")>>
Plain == <<Ch("x")>>
Empty == <<>>

StringsA == {Markup0, Markup1, MarkupAnnotated, MarkupOnlyAnnotation,
             MarkupBroken, Plain, Empty}
StringsB == {<<Ch("s")>>, <<Ch("t")>>}

LeavesA == {Str(s) : s \in StringsA} \cup {Num}
LeavesB == {Str(s) : s \in StringsB} \cup {Num}

\* the same leaves nested in three ways: [l1, l2, ..], [[l1], [l2], ..],
\* [[l1, [l2, ..]]]
ShapeFlat(leaves) == Arr(leaves)
ShapeEach(leaves) == Arr([k \in 1..Len(leaves) |-> Arr(<<leaves[k]>>)])
ShapeNested(leaves) ==
    IF leaves = <<>> THEN Arr(<<Arr(<<>>)>>)
    ELSE Arr(<<Arr(<<Head(leaves), Arr(Tail(leaves))>>)>>)

ArrayReplies(leafSet, n) ==
    UNION {{ShapeFlat(l), ShapeEach(l), ShapeNested(l)} : l \in SeqsUpTo(leafSet, n)}
NonArrayReplies == {Obj, Nul, Str(Plain)}

RepliesA == ArrayReplies(LeavesA, MaxLeavesA) \cup NonArrayReplies
RepliesB == ArrayReplies(LeavesB, MaxLeavesB) \cup NonArrayReplies

TokenErrors == {Error("token failure")}
TransportErrors == {Error("Network Error"), Error("Request failed with status code 429")}

(***************************************************************************)
(* State of one call.                                                      *)
(***************************************************************************)
VARIABLES
    pc,          \* "idle", "token", "request", "await", "done"
    api,         \* the method called
    text,        \* its segment list
    token,       \* the getToken promise and its argument
    requests,    \* the requests handed to axios, in order
    rawResp,     \* the reply data
    result,      \* the list built by the reply handler
    settled,     \* the promise returned by translateBatch
    console,     \* the console.warn calls
    translation  \* the promise returned by GoogleTranslatorTokenFree.translate

vars == <<pc, api, text, token, requests, rawResp, result, settled, console, translation>>

NoToken == [state |-> "none", input |-> <<>>]
TokenValue(input) == [present |-> TRUE, for |-> input]
NoTk == [present |-> FALSE, for |-> <<>>]

Init ==
    /\ pc = "idle"
    /\ api = "none"
    /\ text = <<>>
    /\ token = NoToken
    /\ requests = <<>>
    /\ rawResp = NoReply
    /\ result = <<>>
    /\ settled = Pending
    /\ console = <<>>
    /\ translation = Pending

RequestA(preparedText, tk) ==
    [method |-> "POST", client |-> "te", tk |-> tk, q |-> preparedText]
RequestB(textList) ==
    [method |-> "GET", client |-> "dict-chrome-ex", tk |-> NoTk, q |-> textList]

\* variant: the request is issued without waiting for getToken
translateBatchA_Parallel(textList) ==
    /\ pc = "idle"
    /\ pc' = "token"
    /\ api' = "GoogleTranslator.translateBatch"
    /\ text' = textList
    /\ token' = [state |-> "pending", input |-> Join(encodeForBatch(textList))]
    /\ requests' = Append(requests, RequestA(encodeForBatch(textList), NoTk))
    /\ UNCHANGED <<rawResp, result, settled, console, translation>>

\* GoogleTranslator.translateBatch up to the call of getToken
translateBatchA(textList) ==
    /\ pc = "idle"
    /\ pc' = "token"
    /\ api' = "GoogleTranslator.translateBatch"
    /\ text' = textList
    /\ token' = [state |-> "pending", input |-> Join(encodeForBatch(textList))]
    /\ UNCHANGED <<requests, rawResp, result, settled, console, translation>>

\* getToken resolves: the then-callback builds the request and calls axios
getTokenResolved ==
    /\ pc = "token"
    /\ pc' = "request"
    /\ token' = [token EXCEPT !.state = "resolved"]
    /\ requests' = Append(requests,
                          RequestA(encodeForBatch(text), TokenValue(token.input)))
    /\ UNCHANGED <<api, text, rawResp, result, settled, console, translation>>

\* getToken rejects: the then-callback is skipped, the rejection passes through
getTokenRejected(err) ==
    /\ pc = "token"
    /\ pc' = "done"
    /\ token' = [token EXCEPT !.state = "rejected"]
    /\ settled' = Rejected(err)
    /\ UNCHANGED <<api, text, requests, rawResp, result, console, translation>>

\* GoogleTranslatorTokenFree.translateBatch up to the call of axios
translateBatchB(textList) ==
    /\ pc = "idle"
    /\ pc' = "request"
    /\ api' = "GoogleTranslatorTokenFree.translateBatch"
    /\ text' = textList
    /\ requests' = Append(requests, RequestB(textList))
    /\ UNCHANGED <<token, rawResp, result, settled, console, translation>>

\* GoogleTranslatorTokenFree.translate up to its await
translate(txt) ==
    /\ pc = "idle"
    /\ pc' = "request"
    /\ api' = "GoogleTranslatorTokenFree.translate"
    /\ text' = <<txt>>
    /\ requests' = Append(requests, RequestB(<<txt>>))
    /\ UNCHANGED <<token, rawResp, result, settled, console, translation>>

IsVariantA == api = "GoogleTranslator.translateBatch"
IsVariantB == api \in {"GoogleTranslatorTokenFree.translateBatch",
                       "GoogleTranslatorTokenFree.translate"}
AfterBatch == IF api = "GoogleTranslatorTokenFree.translate" THEN "await" ELSE "done"

\* the transport fails: neither then-callback runs
axiosRejected(err) ==
    /\ pc = "request"
    /\ pc' = AfterBatch
    /\ settled' = Rejected(err)
    /\ UNCHANGED <<api, text, token, requests, rawResp, result, console, translation>>

\* the transport replies to GoogleTranslator.translateBatch
axiosRepliedA(data) ==
    /\ pc = "request"
    /\ IsVariantA
    /\ LET h == handleReplyA(text, data) IN
        /\ settled' = h.settled
        /\ result' = h.result
        /\ console' = console \o h.console
    /\ rawResp' = data
    /\ pc' = "done"
    /\ UNCHANGED <<api, text, token, requests, translation>>

\* the transport replies to GoogleTranslatorTokenFree.translateBatch
axiosRepliedB(data) ==
    /\ pc = "request"
    /\ IsVariantB
    /\ LET h == handleReplyB(text, data) IN
        /\ settled' = h.settled
        /\ result' = h.result
        /\ console' = console \o h.console
    /\ rawResp' = data
    /\ pc' = AfterBatch
    /\ UNCHANGED <<api, text, token, requests, translation>>

\* GoogleTranslatorTokenFree.translate after its await:
\* const [translation] = <the list>; return translation
translateResumed ==
    /\ pc = "await"
    /\ pc' = "done"
    /\ translation' =
          IF settled.state = "rejected" THEN Rejected(settled.error)
          ELSE Resolved(settled.value[1])
    /\ UNCHANGED <<api, text, token, requests, rawResp, result, settled, console>>

Next ==
    \/ \E textList \in TextLists : translateBatchA(textList)
    \/ getTokenResolved
    \/ \E err \in TokenErrors : getTokenRejected(err)
    \/ \E textList \in TextLists : translateBatchB(textList)
    \/ \E txt \in SegmentTexts : translate(txt)
    \/ \E err \in TransportErrors : axiosRejected(err)
    \/ \E data \in RepliesA : axiosRepliedA(data)
    \/ \E data \in RepliesB : axiosRepliedB(data)
    \/ translateResumed

Spec == Init /\ [][Next]_vars

(***************************************************************************)
(* Vocabulary of the properties.                                           *)
(***************************************************************************)
N == Len(text)
IsBatchCall == api \in {"GoogleTranslator.translateBatch",
                        "GoogleTranslatorTokenFree.translateBatch"}
\* the reply handler of translateBatch has run
Handled == rawResp # NoReply
ArrayReply == Handled /\ rawResp.kind = "array"

Leaves == visitArrayItems(rawResp)
StringLeaves == SelectSeq(Leaves, LAMBDA l : l.kind = "string")
\* M collected strings, in traversal order
Collected == [k \in 1..Len(StringLeaves) |-> StringLeaves[k].str]
M == Len(Collected)
Decodes(s) == ~parseXMLResponse(s).isNull
\* the string leaves that decode as markup, and their decoded content
MarkupLeaves == SelectSeq(Collected, Decodes)
DecodedContent == [k \in 1..Len(MarkupLeaves) |-> parseXMLResponse(MarkupLeaves[k]).value]
DecodedOrRaw(s) == IF Decodes(s) THEN parseXMLResponse(s).value ELSE s

\* C1: a batch call of either variant ends resolved with a list of exactly N
\* strings, which is the reconciled list itself, or rejected.
C1_ExactlyNOrRejected ==
    /\ (pc = "done" /\ IsBatchCall) => settled.state \in {"resolved", "rejected"}
    /\ settled.state = "resolved" =>
          /\ Len(settled.value) = N
          /\ settled.value = result
    /\ settled.state = "rejected" => settled.value = <<>>

C1_Witness ==
    /\ pc = "done" /\ IsVariantA /\ N = 2 /\ M = 3
    /\ settled.state = "resolved"

\* C2: Variant A, N >= 1, reply with one markup fragment per segment: the call
\* resolves with the decoded contents of the fragments in reply order; for
\* N > 1 the kept list is exactly the decoded string leaves that decode.
WellFormedA ==
    /\ ArrayReply
    /\ Len(MarkupLeaves) = N
    /\ N = 1 => Decodes(Collected[1])

C3_DirectAndParityModes ==
    (IsVariantB /\ ArrayReply) =>
        /\ (N >= 1 /\ M = N) => settled = Resolved(Collected)
        /\ (N > 1 /\ M = 2 * N) =>
              settled = Resolved([k \in 1..N |-> Collected[2 * k - 1]])

C3_Witness ==
    /\ IsVariantB /\ ArrayReply /\ N = 2 /\ M = 4
    /\ Collected[1] # Collected[2] /\ Collected[3] # Collected[4]
    /\ Collected[1] # Collected[3]
    /\ settled.state = "resolved"

\* C4 as stated: a reply that is not an array, or is the empty array, makes a
\* batch call reject with 'Unexpected response'.
C4_Original ==
    (IsBatchCall /\ Handled /\ (rawResp.kind # "array" \/ rawResp = Arr(<<>>))) =>
        settled = Rejected(UnexpectedResponse)

\* C4 amended: a reply that is not an array rejects with 'Unexpected response'
\* before any reconciliation; the empty array is reconciled: length mismatch
\* for N >= 1, the empty list for N == 0.
C4_NonArrayUnexpectedEmptyArrayMismatch ==
    (IsBatchCall /\ Handled) =>
        /\ rawResp.kind # "array" =>
              /\ settled = Rejected(UnexpectedResponse)
              /\ result = <<>>
        /\ rawResp = Arr(<<>>) =>
              settled = IF N = 0 THEN Resolved(<<>>) ELSE Rejected(LengthMismatch)

C4_Witness ==
    /\ IsBatchCall /\ IsVariantA /\ rawResp = Arr(<<>>) /\ N = 1
    /\ settled = Rejected(LengthMismatch)

\* C5: Variant A: a request is issued only after getToken has resolved, with
\* the token of the concatenated encoded batch; when getToken rejects the call
\* rejects with that error and no request is made.
C5_TokenBeforeRequest ==
    IsVariantA =>
        /\ token.input = Join(encodeForBatch(text))
        /\ requests # <<>> =>
              /\ token.state = "resolved"
              /\ Len(requests) = 1
              /\ requests[1].tk = TokenValue(Join(encodeForBatch(text)))
        /\ token.state = "rejected" =>
              /\ requests = <<>>
              /\ pc = "done"
              /\ settled.state = "rejected"
              /\ settled.error \in TokenErrors

C5_Witness ==
    /\ IsVariantA /\ N = 2 /\ token.state = "rejected"
    /\ settled.state = "rejected" /\ requests = <<>>

\* C6 as stated: Variant A, a reply with one string leaf per segment: every
\* leaf that fails to decode is kept as raw content and the call resolves.
C6_Original ==
    (IsVariantA /\ ArrayReply /\ M = N) =>
        settled = Resolved([k \in 1..M |-> DecodedOrRaw(Collected[k])])

\* C6 amended: with N == 1 a first string leaf that fails to decode is kept
\* raw and the call resolves; otherwise a leaf that fails to decode is
\* discarded, and the call rejects, with the length mismatch, exactly when the
\* number of decoding leaves differs from N.
C6_DecodeFailureRawOrDiscarded ==
    (IsVariantA /\ ArrayReply) =>
        /\ (N = 1 /\ M >= 1 /\ ~Decodes(Collected[1])) =>
              settled = Resolved(<<Collected[1]>>)
        /\ N # 1 =>
              /\ result = DecodedContent
              /\ settled.state = "rejected" <=> Len(MarkupLeaves) # N
        /\ settled.state = "rejected" => settled.error = LengthMismatch

C6_Witness ==
    /\ IsVariantA /\ ArrayReply /\ N = 1
    /\ M >= 1 /\ Collected[1] = MarkupBroken
    /\ settled = Resolved(<<MarkupBroken>>)

\* C7 as stated: Variant A, N == 1, a reply holding the markup leaf of the
\* segment among other leaves: the call resolves with its decoded content.
C7_Original ==
    (IsVariantA /\ ArrayReply /\ N = 1 /\ Len(MarkupLeaves) = 1) =>
        settled = Resolved(DecodedContent)

\* C7 amended: Variant A, N == 1: at most one result is collected, from the
\* first string leaf (decoded, or raw when it does not decode), whatever
\* leaves follow it and whatever non-string leaves precede it.
C7_FirstStringLeafWins ==
    (IsVariantA /\ ArrayReply /\ N = 1) =>
        /\ Len(result) <= 1
        /\ M >= 1 => settled = Resolved(<<DecodedOrRaw(Collected[1])>>)
        /\ M = 0 => settled = Rejected(LengthMismatch)

C7_Witness ==
    /\ IsVariantA /\ ArrayReply /\ N = 1
    /\ Len(Leaves) = 3 /\ Leaves[1].kind # "string"
    /\ Leaves[2] = Str(Markup0) /\ Leaves[3] = Str(Plain)
    /\ settled = Resolved(<<<<Ch("x")>>>>)

Range(f) == {f[k] : k \in DOMAIN f}

C9_SingleTakesFirst ==
    (IsVariantB /\ ArrayReply /\ N = 1 /\ M >= 1) =>
        /\ settled = Resolved(<<Collected[1]>>)
        /\ (api = "GoogleTranslatorTokenFree.translate" /\ pc = "done") =>
              translation = Resolved(Collected[1])
        /\ rawResp \in {ShapeFlat(<<Str(<<Ch("s")>>)>>),
                        ShapeFlat(<<Str(<<Ch("s")>>), Str(<<Ch("t")>>)>>)} =>
              settled.value = <<<<Ch("s")>>>>

C9_Witness ==
    /\ api = "GoogleTranslatorTokenFree.translate" /\ pc = "done"
    /\ ArrayReply /\ M = 2 /\ Collected[1] # Collected[2]
    /\ translation = Resolved(Collected[1])

\* C10: Variant B, N > 1, array reply: the call resolves exactly when M is N,
\* 2N or 2N - 1; for M # N the kept list is the entries at the even (0-based)
\* positions, ceil(M/2) of them; every other M rejects with the mismatch.
C10_AcceptedCounts ==
    (IsVariantB /\ ArrayReply /\ N > 1) =>
        /\ settled.state = "resolved" <=> M \in {N, 2 * N, 2 * N - 1}
        /\ M # N =>
              /\ Len(result) = (M + 1) \div 2
              /\ \A k \in 1..Len(result) : result[k] = Collected[2 * k - 1]
        /\ settled.state = "resolved" => settled.value = result
        /\ settled.state # "resolved" => settled = Rejected(LengthMismatch)

C10_Witness ==
    /\ IsVariantB /\ ArrayReply /\ N = 2 /\ M = 3
    /\ Collected[1] # Collected[2]
    /\ settled = Resolved(<<Collected[1], Collected[3]>>)

=============================================================================
